---- MODULE Spec2Model ----
(***************************************************************************)
(* Model of the managed-extension service worker (src/unnamed/part_000)    *)
(* and of its content script (src/contentscript.js): the expiring cache    *)
(* over chrome.storage.local, schema inference (createSchema), schema      *)
(* comparison (checkSchema/objectCompare) and the event pipeline           *)
(* (updateData -> sendData -> storage -> sendToBackend).                   *)
(*                                                                         *)
(* Every JavaScript value is one record [t, s, n, kv]:                     *)
(*   t  the kind: "undefined" "null" "number" "string" "boolean"           *)
(*      "object" "array", or "text" for a string holding the JSON text    *)
(*      JSON.stringify produced (kv[1].v is what the text denotes);        *)
(*   s  the characters of a string, n the number (1/0 for a boolean);      *)
(*   kv the own properties in enumeration order, <<[k |-> key, v |-> ..]>>;*)
(*      an array's elements are the properties "0", "1", ...               *)
(***************************************************************************)
EXTENDS Integers, Sequences, FiniteSets, TLC

----------------------------------------------------------------------------
(* JavaScript values *)

Undef == [t |-> "undefined", s |-> "", n |-> 0, kv |-> <<>>]
Null == [t |-> "null", s |-> "", n |-> 0, kv |-> <<>>]
Num(x) == [t |-> "number", s |-> "", n |-> x, kv |-> <<>>]
Str(x) == [t |-> "string", s |-> x, n |-> 0, kv |-> <<>>]
Bool(b) == [t |-> "boolean", s |-> "", n |-> IF b THEN 1 ELSE 0, kv |-> <<>>]
Obj(props) == [t |-> "object", s |-> "", n |-> 0, kv |-> props]
Arr(props) == [t |-> "array", s |-> "", n |-> 0, kv |-> props]
P(key, val) == [k |-> key, v |-> val]

\* String(i) for the array indices of the model
IndexNames ==
  <<"0", "1", "2", "3", "4", "5", "6", "7", "8", "9", "10", "11", "12",
     "13", "14", "15", "16", "17", "18", "19", "20", "21", "22", "23",
     "24", "25", "26", "27", "28", "29", "30", "31">>
\* the property name of array index i
Idx(i) == IndexNames[i + 1]
IsIndex(key) == \E i \in 1..Len(IndexNames) : IndexNames[i] = key
\* an array literal [e1, e2, ...]
List(elems) == Arr([i \in 1..Len(elems) |-> P(Idx(i - 1), elems[i])])

\* typeof v
TypeOf(v) ==
  CASE v.t \in {"null", "object", "array"} -> "object"
    [] v.t = "text" -> "string"
    [] OTHER -> v.t

\* ToBoolean(v): undefined, null, 0, "" and false are falsy
Truthy(v) ==
  CASE v.t \in {"undefined", "null"} -> FALSE
    [] v.t \in {"number", "boolean"} -> v.n # 0
    [] v.t = "string" -> v.s # ""
    [] OTHER -> TRUE

HasKey(o, key) == \E i \in 1..Len(o.kv) : o.kv[i].k = key
\* o[key]; undefined when o has no such property
Get(o, key) ==
  IF HasKey(o, key)
  THEN o.kv[CHOOSE i \in 1..Len(o.kv) : o.kv[i].k = key].v
  ELSE Undef
\* o[key] = val: in place when the property exists, appended otherwise
Put(o, key, val) ==
  IF HasKey(o, key)
  THEN [o EXCEPT !.kv = [i \in 1..Len(o.kv) |->
                           IF o.kv[i].k = key THEN P(key, val) ELSE o.kv[i]]]
  ELSE [o EXCEPT !.kv = Append(o.kv, P(key, val))]
\* Object.keys(o)
Keys(o) == [i \in 1..Len(o.kv) |-> o.kv[i].k]
\* arr.length
Length(a) == Cardinality({i \in 1..Len(a.kv) : IsIndex(a.kv[i].k)})

RECURSIVE SelectKV(_, _)
\* the properties of kv (in order) whose index satisfies keep
SelectKV(kv, keep) ==
  IF kv = <<>> THEN <<>>
  ELSE LET rest == SelectKV(Tail(kv), [i \in 1..(Len(kv) - 1) |-> keep[i + 1]])
       IN IF keep[1] THEN <<Head(kv)>> \o rest ELSE rest
\* delete o[key]
Del(o, key) ==
  [o EXCEPT !.kv = SelectKV(o.kv, [i \in 1..Len(o.kv) |-> o.kv[i].k # key])]

RECURSIVE Spread(_, _)
\* {...a, ...b}: b's properties assigned over a's, in b's order
Spread(a, bkv) ==
  IF bkv = <<>> THEN a
  ELSE Spread(Put(a, Head(bkv).k, Head(bkv).v), Tail(bkv))

----------------------------------------------------------------------------
(* JSON.stringify / JSON.parse *)

RECURSIVE Normal(_)
\* What JSON text keeps of a value: an object loses its undefined-valued
\* properties, an array keeps its elements only (a non-index property such
\* as timestamp is not serialised) and an undefined element becomes null.
Normal(v) ==
  CASE v.t = "object" ->
         LET kept == SelectKV(v.kv, [i \in 1..Len(v.kv) |-> v.kv[i].v.t # "undefined"])
         IN Obj([i \in 1..Len(kept) |-> P(kept[i].k, Normal(kept[i].v))])
    [] v.t = "array" ->
         LET kept == SelectKV(v.kv, [i \in 1..Len(v.kv) |-> IsIndex(v.kv[i].k)])
         IN Arr([i \in 1..Len(kept) |->
                   P(kept[i].k, IF kept[i].v.t = "undefined" THEN Null
                                ELSE Normal(kept[i].v))])
    [] v.t = "text" -> Str("json")
    [] OTHER -> v

\* JSON.stringify(v) for an object or array v: a string holding JSON text
Stringify(v) == [t |-> "text", s |-> "", n |-> 0, kv |-> <<P("json", Normal(v))>>]

\* JSON.parse(x) throws a SyntaxError unless x is JSON text; the plain
\* strings of the model (URLs, words) are not JSON, numbers and booleans
\* are converted to JSON text first.
ParseThrows(x) == x.t \in {"string", "undefined", "object", "array"}
Parse(x) == IF x.t = "text" THEN x.kv[1].v ELSE x

----------------------------------------------------------------------------
(* cache(key, value, time, override), from the value getItem(key) gave *)

\* the default of cache's parameter time: six hours in milliseconds
DefaultTime == 21600000

\* value.timestamp = new Date().getTime(); localStorage.setItem(key,
\* JSON.stringify(value)); return value
CacheSave(value, clock) ==
  LET stamped == Put(value, "timestamp", Num(clock))
  IN [write |-> TRUE, item |-> Stringify(stamped), ret |-> stamped, threw |-> FALSE]

CacheKeep(ret) == [write |-> FALSE, item |-> Undef, ret |-> ret, threw |-> FALSE]
CacheThrow == [write |-> FALSE, item |-> Undef, ret |-> Undef, threw |-> TRUE]

\* info.timestamp of the parsed entry: reading a property of null throws
\* (inside the try), a primitive or an array has no such property
StampOf(info) == Get(info, "timestamp")

\* the expiry test as it would be if an entry without a timestamp counted
\* as expired
ExpiredIfUnstamped(info, time, clock) ==
  /\ info.t # "null"
  /\ \/ StampOf(info).t # "number"
     \/ clock > StampOf(info).n + time

\* Date.now() > new Date(info.timestamp).getTime() + time: an entry without
\* a numeric timestamp gives an invalid date, NaN, and the test is false
Expired(info, time, clock) ==
  /\ info.t # "null"
  /\ StampOf(info).t = "number"
  /\ clock > StampOf(info).n + time

\* The body of cache after the await of getItem: info is what the store
\* held, clock the time of the call.  write/item: the setItem it issues;
\* ret: the value returned; threw: the promise is rejected instead.
CacheBody(info, key, value, time, override, clock) ==
  IF ~Truthy(info) /\ ~Truthy(value) THEN CacheKeep(Null)
  ELSE
    LET val == IF TypeOf(value) # "object" THEN Obj(<<P("value", value)>>) ELSE value
    IN IF Truthy(Str(key)) /\ Truthy(val) /\ override THEN CacheSave(val, clock)
       ELSE IF ~Truthy(info) /\ Truthy(val) THEN CacheSave(val, clock)
       ELSE IF ~Truthy(info) THEN CacheKeep(Null)
       ELSE IF ParseThrows(info) THEN CacheThrow
       ELSE IF Expired(Parse(info), time, clock) /\ Truthy(val)
            THEN CacheSave(val, clock)
       ELSE CacheKeep(Parse(info))

----------------------------------------------------------------------------
(* State *)

VARIABLES
  managed,   \* const managed = {}: the admin-console settings read so far
  store,     \* chrome.storage.local: key -> stored item (undefined if none)
  storage,   \* const storage = []: the pending events
  now,       \* Date.now()
  cc,        \* the last direct call of cache: its arguments and its result
  proc,      \* per incoming message: where updateData/sendData stand, their locals
  flight,    \* per sendToBackend call: whether its POST is in flight, and its body
  schemaPosts, \* the POSTs issued to the schema sink: who issued them, the body
  page,      \* the page's window.localStorage item under 'info' (undefined if none)
  calls,     \* per 'request' message to the content script: where getClientInfo stands
  sent       \* the messages the content script sent with chrome.runtime.sendMessage

vars ==
  <<managed, store, storage, now, cc, proc, flight, schemaPosts, page, calls, sent>>

\* the keys of chrome.storage.local the model follows
StoreKeys == {"schema", "ip", "device", "ipurl", "schemaurl", "posturl"}

\* the clock readings of the model: StartTime plus at most MaxJumps steps
MaxJumps == 1
StartTime == 1
TimeSteps == {DefaultTime + 1}
RECURSIVE TimesWithin(_)
TimesWithin(j) ==
  IF j = 0 THEN {StartTime}
  ELSE TimesWithin(j - 1) \cup {t + d : t \in TimesWithin(j - 1), d \in TimeSteps}
Times == TimesWithin(MaxJumps)

\* time passes
Tick ==
  /\ \E d \in TimeSteps : now + d \in Times /\ now' = now + d
  /\ UNCHANGED <<managed, store, storage, cc, proc, flight, schemaPosts, page, calls, sent>>

\* the admin-console policies: which sink and lookup URLs are configured
IpApiUrl == "http://ip-api.com/json"
Policies ==
  { Obj(<<P("posturl", Str("https://sink/events")),
          P("schemaurl", Str("https://sink/schema"))>>),
    Obj(<<P("posturl", Str("https://sink/events")),
          P("schemaurl", Str("https://sink/schema")),
          P("ipurl", Str(IpApiUrl))>>) }

RECURSIVE SetItems(_, _)
\* localStorage.setItem(k, data[k]) for every property of data, in order
SetItems(st, kv) ==
  IF kv = <<>> THEN st
  ELSE SetItems([st EXCEPT ![Head(kv).k] = Head(kv).v], Tail(kv))

\* getManagedStorage: chrome.storage.managed.get hands over the policy; every
\* key of it is copied, as it is, into the local store and into managed
getManagedStorage ==
  \E data \in Policies :
    /\ store' = SetItems(store, data.kv)
    /\ managed' = Spread(managed, data.kv)
    /\ UNCHANGED <<storage, now, cc, proc, flight, schemaPosts, page, calls, sent>>

----------------------------------------------------------------------------
(* Direct calls of cache *)

NoCall ==
  [key |-> "", value |-> Undef, time |-> 0, override |-> FALSE,
   res |-> CacheKeep(Undef)]

\* the schema of an event {event: "..."}, as createSchema builds it
EventSchema == List(<<Obj(<<P("type", Str("STRING")), P("name", Str("event"))>>)>>)

CacheKeys == {"schema", "ipurl"}
CacheValues ==
  { Undef, Null, Num(0), Str("10.0.0.7"),
    Obj(<<P("ip", Str("10.0.0.7"))>>), EventSchema }
CacheTimes == {DefaultTime, DefaultTime + 1}

\* await cache(key, value, time, override) by a single caller
CacheCall(key, value, time, override) ==
  LET res == CacheBody(store[key], key, value, time, override, now)
  IN /\ store' = IF res.write THEN [store EXCEPT ![key] = res.item] ELSE store
     /\ cc' = [key |-> key, value |-> value, time |-> time, override |-> override,
               res |-> res]
     /\ UNCHANGED <<managed, storage, now, proc, flight, schemaPosts, page, calls, sent>>

CacheAny ==
  \E key \in CacheKeys, value \in CacheValues, time \in CacheTimes, override \in BOOLEAN :
    CacheCall(key, value, time, override)

\* the number of messages and of sendToBackend calls the model follows
NReq == 2
NFlight == 1
Reqs == 1..NReq
Flights == 1..NFlight

\* a message slot before its message arrives
Idle ==
  [pc |-> "idle", e |-> Undef, info |-> Undef, device |-> Undef, ip |-> Undef,
   err |-> "", schemaurl |-> Undef, savedSchema |-> Undef, schema |-> Undef,
   newSchema |-> FALSE, ipw |-> "none", ipwInfo |-> Undef]
Landed == [pc |-> "idle", body |-> <<>>]

\* the number of 'request' messages to the content script the model follows
NCall == 2
Calls == 1..NCall
\* a content-script slot before its 'request' message arrives
Waiting == [pc |-> "idle", e |-> Undef]
\* the content script's side before any request: the page stores no 'info'
\* item and nothing was sent
ClientInit ==
  /\ page = Undef
  /\ calls = [c \in Calls |-> Waiting]
  /\ sent = {}

Init ==
  /\ managed = Obj(<<>>)
  /\ store = [k \in StoreKeys |-> Undef]
  /\ storage = <<>>
  /\ now = StartTime
  /\ cc = NoCall
  /\ proc = [r \in Reqs |-> Idle]
  /\ flight = [f \in Flights |-> Landed]
  /\ schemaPosts = {}
  /\ ClientInit

NextCache == CacheAny \/ Tick \/ getManagedStorage
SpecCache == Init /\ [][NextCache]_vars

----------------------------------------------------------------------------
(* The cache contract (SpecCache) *)

\* a value is supplied to cache unless the argument is omitted or null
Supplied(value) == value.t \notin {"undefined", "null"}
\* the item under a key is an entry cache persisted (JSON text)
IsEntry(item) == item.t = "text"
\* the entry persisted under a key, read back
EntryOf(item) == Parse(item)
\* what the store keeps of a supplied value: an object or array as it is, a
\* scalar wrapped as {value: scalar}; the timestamp aside
Payload(v) == Del(Normal(IF TypeOf(v) # "object" THEN Obj(<<P("value", v)>>) ELSE v),
                  "timestamp")

\* C2: a call without override on a key that holds an entry leaves the
\* store unmodified and returns the entry, when the entry's age is at most
\* the TTL or when no value is supplied (whatever the age).
C2_ReadKeepsEntry ==
  [][\A key \in CacheKeys, value \in CacheValues, time \in CacheTimes :
       ( /\ CacheCall(key, value, time, FALSE)
         /\ IsEntry(store[key])
         /\ StampOf(EntryOf(store[key])).t = "number"
         /\ \/ ~Supplied(value)
            \/ now - StampOf(EntryOf(store[key])).n <= time )
       => ( /\ store' = store
            /\ ~cc'.res.threw
            /\ cc'.res.ret = EntryOf(store[key]) )]_vars

\* C3: an entry of any kind written at time T (the previous call saved it
\* and it is still the stored item): a later call without override that
\* supplies a value with TTL t returns the original entry and leaves the
\* store unchanged if now - T <= t, and replaces the entry by the new value
\* with timestamp now if now - T > t.
C3_TtlBoundary ==
  [][\A value \in CacheValues, time \in CacheTimes :
       ( /\ cc.res.write
         /\ CacheCall(cc.key, value, time, FALSE)
         /\ store[cc.key] = cc.res.item
         /\ Supplied(value) )
       => IF now - StampOf(cc.res.ret).n <= time
          THEN /\ store' = store
               /\ cc'.res.ret = EntryOf(store[cc.key])
          ELSE /\ IsEntry(store'[cc.key])
               /\ Payload(EntryOf(store'[cc.key])) = Payload(value)
               /\ StampOf(cc'.res.ret) = Num(now)]_vars

\* C4: a call that supplies a value with override = true replaces the
\* stored entry by that value, whether or not an entry exists and whatever
\* its age, and the persisted entry carries the time of the write.
C4_OverrideReplaces ==
  [][\A key \in CacheKeys, value \in CacheValues, time \in CacheTimes :
       (CacheCall(key, value, time, TRUE) /\ Supplied(value))
       => ( /\ IsEntry(store'[key])
            /\ Payload(EntryOf(store'[key])) = Payload(value)
            /\ StampOf(EntryOf(store'[key])) = Num(now) )]_vars

\* C5: every entry cache has persisted is a mapping with a timestamp.
C5_EntriesAreStamped ==
  \A key \in CacheKeys :
    IsEntry(store[key])
    => /\ EntryOf(store[key]).t = "object"
       /\ StampOf(EntryOf(store[key])).t = "number"

\* C6: a call of cache on a key whose item is not parseable as JSON does
\* not fail: no call of cache ends by throwing.
C6_UnparseableIsMiss == ~cc.res.threw

----------------------------------------------------------------------------
(* createSchema *)

\* the outcome of a call that ended by throwing
Thrown == [t |-> "thrown", s |-> "", n |-> 0, kv |-> <<>>]

\* BQDict[type]: undefined for a type the table does not hold
BQDict(type) ==
  CASE type = "number" -> Str("NUMERIC")
    [] type = "bigint" -> Str("BIGNUMERIC")
    [] type = "string" -> Str("STRING")
    [] type = "boolean" -> Str("BOOL")
    [] type = "date" -> Str("DATE")
    [] type = "datetime" -> Str("DATETIME")
    [] OTHER -> Undef

\* the elements of an array, in index order (forEach visits these)
Elements(a) == SelectKV(a.kv, [i \in 1..Len(a.kv) |-> IsIndex(a.kv[i].k)])
InSeq(x, seq) == \E i \in 1..Len(seq) : seq[i] = x

RECURSIVE MergeKeys(_, _, _, _)
\* akeys.forEach(ak => ...): a key not yet among rkeys takes d's value, and
\* a key whose recorded value is undefined or null takes d's truthy value
MergeKeys(repeated, rkeys, d, akeys) ==
  IF akeys = <<>> THEN repeated
  ELSE LET ak == Head(akeys)
           r1 == IF ~InSeq(ak, rkeys) THEN Put(repeated, ak, Get(d, ak)) ELSE repeated
           r2 == IF Get(r1, ak).t \in {"undefined", "null"} /\ Truthy(Get(d, ak))
                 THEN Put(r1, ak, Get(d, ak)) ELSE r1
       IN MergeKeys(r2, rkeys, d, Tail(akeys))

RECURSIVE ScanArray(_, _, _)
\* data[k].forEach((d, i) => ...) over the elements left, from the repeated
\* object and the fields list so far; Object.keys(null) throws
ScanArray(elems, repeated, fields) ==
  IF elems = <<>> THEN [repeated |-> repeated, fields |-> fields, threw |-> FALSE]
  ELSE LET d == Head(elems).v
       IN IF TypeOf(d) = "object"
          THEN IF d.t = "null"
               THEN [repeated |-> repeated, fields |-> fields, threw |-> TRUE]
               ELSE ScanArray(Tail(elems),
                              MergeKeys(repeated, Keys(repeated), d, Keys(d)), fields)
          ELSE ScanArray(Tail(elems), repeated,
                         Append(fields, Obj(<<P("name", Str("item" \o Head(elems).k)),
                                              P("type", BQDict(TypeOf(d)))>>)))

\* obj['name'] = k; if (!obj['type']) obj['type'] = 'STRING'
Named(obj, k) ==
  LET named == Put(obj, "name", Str(k))
  IN IF ~Truthy(Get(named, "type")) THEN Put(named, "type", Str("STRING")) ELSE named

RECURSIVE createSchema(_)
RECURSIVE SchemaOfKeys(_, _)
\* keys.forEach(k => ...): the fields of the properties left, after schema;
\* the result is the list of fields, or Thrown
SchemaOfKeys(props, schema) ==
  IF props = <<>> THEN List(schema)
  ELSE
    LET k == Head(props).k
        v == Head(props).v
    IN IF TypeOf(v) = "object"
       THEN IF v.t = "array"
            THEN LET scan == ScanArray(Elements(v), Obj(<<>>), <<>>)
                     fields == IF Len(scan.repeated.kv) > 0 THEN createSchema(scan.repeated)
                               ELSE IF Len(scan.fields) > 0 THEN List(scan.fields)
                               ELSE createSchema(Get(v, "0"))
                 IN IF scan.threw \/ fields = Thrown THEN Thrown
                    ELSE SchemaOfKeys(Tail(props),
                           Append(schema,
                                  Named(Obj(<<P("type", Str("RECORD")),
                                              P("mode", Str("REPEATED")),
                                              P("fields", fields)>>), k)))
            ELSE LET fields == createSchema(v)
                 IN IF fields = Thrown THEN Thrown
                    ELSE IF ~Truthy(fields) \/ Len(fields.kv) = 0
                    THEN SchemaOfKeys(Tail(props), schema)
                    ELSE SchemaOfKeys(Tail(props),
                           Append(schema,
                                  Named(Obj(<<P("type", Str("STRUCT")),
                                              P("fields", fields)>>), k)))
       ELSE SchemaOfKeys(Tail(props),
                         Append(schema, Named(Obj(<<P("type", BQDict(TypeOf(v)))>>), k)))

\* createSchema(data): undefined for a falsy argument
createSchema(data) ==
  IF ~Truthy(data) THEN Undef ELSE SchemaOfKeys(data.kv, <<>>)

----------------------------------------------------------------------------
(* checkSchema / objectCompare *)

\* savedObj.find(o => o.name == k.name)
Find(savedObj, name) ==
  LET elems == Elements(savedObj)
      hits == {i \in 1..Len(elems) : Get(elems[i].v, "name") = name}
  IN IF hits = {} THEN Undef
     ELSE elems[CHOOSE i \in hits : \A j \in hits : i <= j].v

RECURSIVE objectCompare(_, _)
RECURSIVE CompareFields(_, _, _)
RECURSIVE CompareFieldsDeep(_, _, _)
\* obj.forEach as it would be if a REPEATED field were descended into as a
\* STRUCT field is
CompareFieldsDeep(elems, savedObj, newSchema) ==
  IF elems = <<>> THEN newSchema
  ELSE
    LET k == Head(elems).v
        saved == Find(savedObj, Get(k, "name"))
        n1 == IF Truthy(saved) /\ Get(saved, "type") # Get(k, "type") THEN TRUE
              ELSE newSchema
        n2 == IF ~Truthy(saved) THEN TRUE ELSE n1
        n3 == IF Get(k, "type") \in {Str("STRUCT"), Str("RECORD")}
              THEN IF ~Truthy(saved) THEN TRUE
                   ELSE objectCompare(Get(k, "fields"), Get(saved, "fields"))
              ELSE n2
    IN CompareFieldsDeep(Tail(elems), savedObj, n3)

RECURSIVE CompareFieldsOr(_, _, _)
\* obj.forEach as it would be if the verdict on a STRUCT field were ORed
\* with the flag so far
CompareFieldsOr(elems, savedObj, newSchema) ==
  IF elems = <<>> THEN newSchema
  ELSE
    LET k == Head(elems).v
        saved == Find(savedObj, Get(k, "name"))
        n1 == IF Truthy(saved) /\ Get(saved, "type") # Get(k, "type") THEN TRUE
              ELSE newSchema
        n2 == IF ~Truthy(saved) THEN TRUE ELSE n1
        n3 == IF Get(k, "type") = Str("STRUCT")
              THEN IF ~Truthy(saved) THEN TRUE
                   ELSE n2 \/ objectCompare(Get(k, "fields"), Get(saved, "fields"))
              ELSE n2
    IN CompareFieldsOr(Tail(elems), savedObj, n3)

\* obj.forEach(k => ...) over the candidate fields left, from the flag so far
CompareFields(elems, savedObj, newSchema) ==
  IF elems = <<>> THEN newSchema
  ELSE
    LET k == Head(elems).v
        saved == Find(savedObj, Get(k, "name"))
        n1 == IF Truthy(saved) /\ Get(saved, "type") # Get(k, "type") THEN TRUE
              ELSE newSchema
        n2 == IF ~Truthy(saved) THEN TRUE ELSE n1
        n3 == IF Get(k, "type") = Str("STRUCT")
              THEN IF ~Truthy(saved) THEN TRUE
                   ELSE objectCompare(Get(k, "fields"), Get(saved, "fields"))
              ELSE n2
    IN CompareFields(Tail(elems), savedObj, n3)

\* objectCompare as it would be if a baseline of another length than the
\* candidate counted as a change
objectCompareSameLength(obj, savedObj) ==
  IF ~Truthy(savedObj) \/ Length(savedObj) = 0 THEN TRUE
  ELSE Length(savedObj) # Length(obj) \/ CompareFields(Elements(obj), savedObj, FALSE)

objectCompare(obj, savedObj) ==
  IF ~Truthy(savedObj) \/ Length(savedObj) = 0 THEN TRUE
  ELSE CompareFields(Elements(obj), savedObj, FALSE)

checkSchema(schema, savedSchema) == objectCompare(schema, savedSchema)

----------------------------------------------------------------------------
(* clearEmptyObjects *)

RECURSIVE clearEmptyObjects(_)
RECURSIVE ClearKeys(_, _)
\* Object.keys(obj).forEach(k => ...) over the keys left
ClearKeys(obj, keys) ==
  IF keys = <<>> THEN obj
  ELSE LET k == Head(keys)
           v == Get(obj, k)
       IN IF TypeOf(v) = "object"
          THEN IF ~Truthy(v) THEN ClearKeys(Del(obj, k), Tail(keys))
               ELSE IF Len(v.kv) = 0 THEN ClearKeys(Del(obj, k), Tail(keys))
               ELSE ClearKeys(Put(obj, k, clearEmptyObjects(v)), Tail(keys))
          ELSE ClearKeys(obj, Tail(keys))

clearEmptyObjects(obj) == ClearKeys(obj, Keys(obj))

----------------------------------------------------------------------------
(* The event pipeline: onMessage -> updateData -> sendData -> storage *)

\* the messages the content script sends on a request of the service worker
CrosAgent == "Mozilla/5.0 (X11; CrOS x86_64 14541.0.0) Chrome/120.0.0.0"
Requests ==
  { Obj(<<P("agent", Str(CrosAgent)), P("platform", Str("Linux-x86-64")),
          P("tabId", Null), P("event", Str("timed check"))>>),
    Obj(<<P("agent", Str(CrosAgent)), P("platform", Str("Linux-x86-64"))>>) }

\* the first of /CrOS/, /Android/, /Mac/, /Win/, /Linux/ the agent matches
OsOf(agent) == IF agent = CrosAgent THEN "ChromeOS" ELSE "Unknown"
\* agent.match('Chrome\/([0-9]*\.[0-9]*\.[0-9]*\.[0-9]*)'): null if no match
ChromeVersionOf(agent) == IF agent = CrosAgent THEN Str("120.0.0.0") ELSE Null

\* what the enterprise device APIs hand over (getAllDeviceInfo): the serial
\* number and directory id stand for the five device attributes
DeviceValues ==
  { [serial |-> Str("SN1"), directory |-> Str("D1"),
     network |-> Obj(<<P("macAddress", Str("aa:bb"))>>)] }

\* device = {...}, from the values getAllDeviceInfo resolved to
DeviceOf(values) ==
  LET base == Obj(<<P("getDeviceSerialNumber", values.serial),
                    P("getDirectoryDeviceId", values.directory),
                    P("ismanaged", Bool(Truthy(values.directory)))>>)
  IN IF Truthy(values.network) /\ Len(values.network.kv) > 0
     THEN Spread(base, values.network.kv)
     ELSE IF Truthy(values.network) THEN Put(base, "getNetworkDetails", values.network)
     ELSE base

\* chrome.identity.getProfileUserInfo
Users == {Obj(<<P("email", Str("")), P("id", Str(""))>>)}

\* the JSON the IP lookup answers with
IpReplies == {Obj(<<P("status", Str("success")), P("query", Str("10.0.0.7"))>>)}
\* 3600 + Math.floor(Math.random() * 1000)
IpTimes == {3600, 4599}

\* getIP's treatment of an answer of ip-api.com
GeoIpOf(reply, ipurl) ==
  IF ipurl = Str(IpApiUrl)
  THEN LET g1 == IF Truthy(Get(reply, "status")) THEN Del(reply, "status") ELSE reply
       IN IF Truthy(Get(g1, "query")) /\ ~Truthy(Get(g1, "ip"))
          THEN Del(Put(g1, "ip", Get(g1, "query")), "query")
          ELSE g1
  ELSE reply

Set(r, rec) == proc' = [proc EXCEPT ![r] = rec]

\* const all = clearEmptyObjects(e); all.timestamp = ...; storage.push(all)
Pushed(r, e) ==
  Append(storage, [id |-> r, obj |-> Put(clearEmptyObjects(e), "timestamp", Num(now))])

\* chrome.runtime.onMessage with a message that is not {type: 'start'}:
\* updateData(request) up to its first await
onMessage(r) ==
  \E request \in Requests :
    /\ proc[r].pc = "idle"
    /\ LET agent == Get(request, "agent")
       IN IF Truthy(agent)
          THEN IF ChromeVersionOf(agent.s) = Null
               THEN Set(r, [proc[r] EXCEPT !.pc = "caught", !.err = "agent",
                                           !.e = Put(request, "os", Str(OsOf(agent.s)))])
               ELSE Set(r, [proc[r] EXCEPT !.pc = "u_device",
                              !.e = Put(Put(request, "os", Str(OsOf(agent.s))),
                                        "chromeversion", ChromeVersionOf(agent.s))])
          ELSE Set(r, [proc[r] EXCEPT !.pc = "u_device", !.e = request])
    /\ UNCHANGED <<managed, store, storage, now, cc, flight, schemaPosts, page, calls, sent>>

\* let device = await localStorage.getItem('device'), filled from the device
\* APIs and saved when the store holds none (the two awaits taken as one
\* step); then cache('ip') asks the store
updDevice(r) ==
  /\ proc[r].pc = "u_device"
  /\ LET held == store["device"]
     IN IF ~Truthy(held)
        THEN \E values \in DeviceValues :
               /\ store' = [store EXCEPT !["device"] = Stringify(DeviceOf(values))]
               /\ Set(r, [proc[r] EXCEPT !.pc = "u_ipread", !.device = DeviceOf(values)])
        ELSE IF TypeOf(held) = "string" /\ ParseThrows(held)
        THEN /\ Set(r, [proc[r] EXCEPT !.pc = "caught", !.err = "device"])
             /\ UNCHANGED store
        ELSE /\ Set(r, [proc[r] EXCEPT !.pc = "u_ipread", !.device = Parse(held)])
             /\ UNCHANGED store
  /\ UNCHANGED <<managed, storage, now, cc, flight, schemaPosts, page, calls, sent>>

\* the store answers the getItem of await cache('ip')
updIpRead(r) ==
  /\ proc[r].pc = "u_ipread"
  /\ Set(r, [proc[r] EXCEPT !.pc = "u_ipbody", !.info = store["ip"]])
  /\ UNCHANGED <<managed, store, storage, now, cc, flight, schemaPosts, page, calls, sent>>

\* after the user lookup: ip = {ip: ip.value}; allinfo = {...request,
\* ...user, ...ip, ...deviceinfo}; sendData(allinfo) if allinfo.event, which
\* runs up to its first await: with no schemaurl it pushes the event at once
Merged(rec, user, ip) ==
  LET ip1 == IF Truthy(ip) /\ Truthy(Get(ip, "value"))
             THEN Obj(<<P("ip", Get(ip, "value"))>>) ELSE ip
      deviceinfo == IF Truthy(rec.device) /\ Len(rec.device.kv) > 0
                    THEN rec.device ELSE Obj(<<>>)
  IN Spread(Spread(Spread(rec.e, user.kv), ip1.kv), deviceinfo.kv)

\* the rest of cache('ip') and of updateData up to the next await: with no
\* cached ip, getIP() ({} at once when no ipurl is set, else a fetch)
updIpBody(r) ==
  /\ proc[r].pc = "u_ipbody"
  /\ LET res == CacheBody(proc[r].info, "ip", Undef, DefaultTime, FALSE, now)
         ipurl == Get(managed, "ipurl")
     IN /\ store' = IF res.write THEN [store EXCEPT !["ip"] = res.item] ELSE store
        /\ IF res.threw
           THEN Set(r, [proc[r] EXCEPT !.pc = "caught", !.err = "parse", !.info = Undef])
           ELSE IF Truthy(res.ret)
           THEN Set(r, [proc[r] EXCEPT !.pc = "u_user", !.ip = res.ret, !.info = Undef])
           ELSE IF ~Truthy(ipurl)
           THEN Set(r, [proc[r] EXCEPT !.pc = "u_user", !.ip = Obj(<<>>), !.info = Undef,
                                       !.ipw = "read"])
           ELSE Set(r, [proc[r] EXCEPT !.pc = "u_getip", !.info = Undef])
  /\ UNCHANGED <<managed, storage, now, cc, flight, schemaPosts, page, calls, sent>>

\* the fetch of getIP answers: ip = geoip and cache('ip', ip, ...) is
\* started, not awaited
updGetIpOk(r) ==
  /\ proc[r].pc = "u_getip"
  /\ \E reply \in IpReplies :
       Set(r, [proc[r] EXCEPT !.pc = "u_user", !.ipw = "read",
                              !.ip = GeoIpOf(reply, Get(managed, "ipurl"))])
  /\ UNCHANGED <<managed, store, storage, now, cc, flight, schemaPosts, page, calls, sent>>

\* the fetch of getIP rejects, or its body is not JSON: getIP throws into
\* updateData's try, whose catch ends updateData
updGetIpFail(r) ==
  /\ proc[r].pc = "u_getip"
  /\ Set(r, [proc[r] EXCEPT !.pc = "caught", !.err = "ip"])
  /\ UNCHANGED <<managed, store, storage, now, cc, flight, schemaPosts, page, calls, sent>>

\* the detached cache('ip', ip, 3600 + random): the store answers its getItem
ipCacheRead(r) ==
  /\ proc[r].ipw = "read"
  /\ Set(r, [proc[r] EXCEPT !.ipw = "body", !.ipwInfo = store["ip"]])
  /\ UNCHANGED <<managed, store, storage, now, cc, flight, schemaPosts, page, calls, sent>>

\* the detached cache('ip', ip, 3600 + random): its body.  A save stamps
\* the very object updateData holds as ip, which the merge may yet read
ipCacheBody(r) ==
  /\ proc[r].ipw = "body"
  /\ \E time \in IpTimes :
       LET res == CacheBody(proc[r].ipwInfo, "ip", proc[r].ip, time, FALSE, now)
       IN /\ store' = IF res.write THEN [store EXCEPT !["ip"] = res.item] ELSE store
          /\ Set(r, [proc[r] EXCEPT !.ipw = "none", !.ipwInfo = Undef,
                                    !.ip = IF res.write /\ proc[r].pc = "u_user"
                                           THEN res.ret ELSE @])
  /\ UNCHANGED <<managed, storage, now, cc, flight, schemaPosts, page, calls, sent>>

\* getUser() resolves: the merge, and sendData(allinfo) up to its first await
updUser(r) ==
  /\ proc[r].pc = "u_user"
  /\ \E user \in Users :
       LET allinfo == Merged(proc[r], user, proc[r].ip)
           schemaurl == Get(managed, "schemaurl")
       IN IF ~Truthy(Get(allinfo, "event"))
          THEN /\ Set(r, [proc[r] EXCEPT !.pc = "unsent", !.e = allinfo])
               /\ UNCHANGED storage
          ELSE IF Truthy(schemaurl)
          THEN /\ Set(r, [proc[r] EXCEPT !.pc = "s_read", !.e = allinfo,
                                         !.schemaurl = schemaurl])
               /\ UNCHANGED storage
          ELSE /\ Set(r, [proc[r] EXCEPT !.pc = "done", !.e = allinfo])
               /\ storage' = Pushed(r, allinfo)
  /\ UNCHANGED <<managed, store, now, cc, flight, schemaPosts, page, calls, sent>>

\* getUser() rejects: updateData's catch
updUserFail(r) ==
  /\ proc[r].pc = "u_user"
  /\ Set(r, [proc[r] EXCEPT !.pc = "caught", !.err = "user"])
  /\ UNCHANGED <<managed, store, storage, now, cc, flight, schemaPosts, page, calls, sent>>

\* the store answers the getItem of await cache('schema')
sendRead(r) ==
  /\ proc[r].pc = "s_read"
  /\ Set(r, [proc[r] EXCEPT !.pc = "s_body", !.info = store["schema"]])
  /\ UNCHANGED <<managed, store, storage, now, cc, flight, schemaPosts, page, calls, sent>>

\* savedSchema as it would be if only the value of a wrapped entry counted
SavedOfValue(ret) ==
  IF Truthy(ret) /\ Get(ret, "value").t = "array" THEN Get(ret, "value") ELSE Null

\* savedSchema as sendData takes it from what cache('schema') returned
SavedOf(ret) ==
  LET unwrapped == IF Truthy(ret) /\ Truthy(Get(ret, "value")) THEN Get(ret, "value")
                   ELSE ret
  IN IF unwrapped.t # "array" THEN Null ELSE unwrapped

\* the rest of cache('schema'); savedSchema, createSchema(e), checkSchema;
\* on a change cache('schema', schema, 600, true) asks the store, else the
\* event is pushed
sendBody(r) ==
  /\ proc[r].pc = "s_body"
  /\ LET res == CacheBody(proc[r].info, "schema", Undef, DefaultTime, FALSE, now)
         saved == SavedOf(res.ret)
         schema == createSchema(proc[r].e)
         changed == checkSchema(schema, saved)
     IN /\ store' = IF res.write THEN [store EXCEPT !["schema"] = res.item] ELSE store
        /\ IF res.threw
           THEN /\ Set(r, [proc[r] EXCEPT !.pc = "rejected", !.err = "parse", !.info = Undef])
                /\ UNCHANGED storage
           ELSE IF schema = Thrown
           THEN /\ Set(r, [proc[r] EXCEPT !.pc = "rejected", !.err = "schema",
                                          !.info = Undef, !.savedSchema = saved])
                /\ UNCHANGED storage
           ELSE IF changed
           THEN /\ Set(r, [proc[r] EXCEPT !.pc = "s_wread", !.info = Undef,
                             !.savedSchema = saved, !.schema = schema, !.newSchema = TRUE])
                /\ UNCHANGED storage
           ELSE /\ Set(r, [proc[r] EXCEPT !.pc = "done", !.info = Undef,
                             !.savedSchema = saved, !.schema = schema, !.newSchema = FALSE])
                /\ storage' = Pushed(r, proc[r].e)
  /\ UNCHANGED <<managed, now, cc, flight, schemaPosts, page, calls, sent>>

\* the store answers the getItem of await cache('schema', schema, 600, true)
sendWriteRead(r) ==
  /\ proc[r].pc = "s_wread"
  /\ Set(r, [proc[r] EXCEPT !.pc = "s_wbody", !.info = store["schema"]])
  /\ UNCHANGED <<managed, store, storage, now, cc, flight, schemaPosts, page, calls, sent>>

\* the time cache('schema', schema, 600, true) is called with
SchemaTime == 600

\* the rest of cache('schema', schema, 600, true), then sendToSink(schema,
\* schemaurl): nothing for an empty schema, else the POST is issued
sendWriteBody(r) ==
  /\ proc[r].pc = "s_wbody"
  /\ LET res == CacheBody(proc[r].info, "schema", proc[r].schema, SchemaTime, TRUE, now)
         stamped == IF res.write THEN res.ret ELSE proc[r].schema
     IN /\ store' = IF res.write THEN [store EXCEPT !["schema"] = res.item] ELSE store
        /\ IF ~Truthy(stamped) \/ Length(stamped) = 0 \/ ~Truthy(proc[r].schemaurl)
           THEN /\ Set(r, [proc[r] EXCEPT !.pc = "done", !.info = Undef, !.schema = stamped])
                /\ storage' = Pushed(r, proc[r].e)
                /\ UNCHANGED schemaPosts
           ELSE /\ Set(r, [proc[r] EXCEPT !.pc = "s_sink", !.info = Undef, !.schema = stamped])
                /\ schemaPosts' = schemaPosts \cup {[by |-> r, body |-> Normal(stamped)]}
                /\ UNCHANGED storage
  /\ UNCHANGED <<managed, now, cc, flight, page, calls, sent>>

\* the end of the POST as it would be if its failure left sendToSink
sendSinkEndThrows(r) ==
  /\ proc[r].pc = "s_sink"
  /\ \/ /\ Set(r, [proc[r] EXCEPT !.pc = "done"])
        /\ storage' = Pushed(r, proc[r].e)
     \/ /\ Set(r, [proc[r] EXCEPT !.pc = "rejected", !.err = "sink"])
        /\ UNCHANGED storage
  /\ UNCHANGED <<managed, store, now, cc, flight, schemaPosts, page, calls, sent>>

\* the POST to the schema sink ends, answered or failed (the failure is
\* caught in sendToSink): the event is pushed
sendSinkEnd(r) ==
  /\ proc[r].pc = "s_sink"
  /\ Set(r, [proc[r] EXCEPT !.pc = "done"])
  /\ storage' = Pushed(r, proc[r].e)
  /\ UNCHANGED <<managed, store, now, cc, flight, schemaPosts, page, calls, sent>>

----------------------------------------------------------------------------
(* sendToBackend *)

\* sendToBackend with posturl set and events pending: sendToSink issues the
\* POST with body JSON.stringify(storage) and awaits the answer.  (With no
\* posturl, or nothing pending, the call changes nothing.)
flushStart(f) ==
  /\ flight[f].pc = "idle"
  /\ Truthy(Get(managed, "posturl"))
  /\ Len(storage) > 0
  /\ flight' = [flight EXCEPT ![f] = [pc |-> "posting", body |-> storage]]
  /\ UNCHANGED <<managed, store, storage, now, cc, proc, schemaPosts, page, calls, sent>>

\* what storage.splice(0, storage.length) leaves
Spliced(pending) == <<>>

\* the POST ends, answered or failed: storage.splice(0, storage.length)
flushEnd(f) ==
  /\ flight[f].pc = "posting"
  /\ storage' = Spliced(storage)
  /\ flight' = [flight EXCEPT ![f] = Landed]
  /\ UNCHANGED <<managed, store, now, cc, proc, schemaPosts, page, calls, sent>>

Next ==
  \/ getManagedStorage
  \/ Tick
  \/ \E r \in Reqs :
       \/ onMessage(r) \/ updDevice(r) \/ updIpRead(r) \/ updIpBody(r)
       \/ updGetIpOk(r) \/ updGetIpFail(r) \/ ipCacheRead(r) \/ ipCacheBody(r)
       \/ updUser(r) \/ updUserFail(r)
       \/ sendRead(r) \/ sendBody(r) \/ sendWriteRead(r) \/ sendWriteBody(r)
       \/ sendSinkEnd(r)
  \/ \E f \in Flights : flushStart(f) \/ flushEnd(f)

Spec == Init /\ [][Next]_vars

----------------------------------------------------------------------------
(* sendData alone: one merged event against a stored schema *)

\* the merged events: the event field, and up to MaxKeys further fields
\* (the IP lookup's answer and the device APIs put arbitrary JSON there),
\* at most one of them an array, of up to MaxLen elements
MaxKeys == 2
MaxLen == 2
Names == {"a", "b"}
KeySeqs ==
  UNION {{ks \in [1..n -> Names] : \A i, j \in 1..n : i # j => ks[i] # ks[j]} :
         n \in 0..MaxKeys}
ObjsOver(vals) ==
  UNION {{Obj([i \in 1..Len(ks) |-> P(ks[i], f[i])]) :
            f \in {g \in [1..Len(ks) -> vals] :
                     Cardinality({i \in 1..Len(ks) : g[i].t = "array"}) <= 1}} :
         ks \in KeySeqs}
ArrsOver(vals) == UNION {{List(f) : f \in [1..n -> vals]} : n \in 0..MaxLen}

Scalars == {Num(1), Str("x"), Null}
InnerObjs ==
  {Obj(<<>>)} \cup {Obj(<<P("x", v)>>) : v \in {Num(1), Str("x"), Obj(<<>>), List(<<>>)}}
Elems == {Num(1), Null, Obj(<<>>), Obj(<<P("x", Num(1))>>), Obj(<<P("x", Null)>>)}
FieldVals == Scalars \cup InnerObjs \cup ArrsOver(Elems)
WithEvent(o) == Spread(Obj(<<P("event", Str("timed check"))>>), o.kv)
SendEvents == {WithEvent(o) : o \in ObjsOver(FieldVals)}

\* the schema items an earlier sendData left in the store, or none
BaseVals == {Undef, Num(1), Obj(<<P("x", Num(1))>>), List(<<Num(1)>>)}
BaseEvents ==
  {WithEvent(Normal(Obj(<<P("a", va), P("b", vb)>>))) : va \in BaseVals, vb \in BaseVals}
StoredSchemas ==
  {Undef} \cup {CacheSave(createSchema(b), StartTime).item : b \in BaseEvents}

FullPolicy ==
  Obj(<<P("posturl", Str("https://sink/events")),
        P("schemaurl", Str("https://sink/schema")),
        P("ipurl", Str(IpApiUrl))>>)

\* sendData(e) has just asked the store for the schema entry
InitSend ==
  /\ managed = FullPolicy
  /\ \E item \in StoredSchemas :
       store = [SetItems([k \in StoreKeys |-> Undef], FullPolicy.kv)
                  EXCEPT !["schema"] = item]
  /\ storage = <<>>
  /\ now = StartTime
  /\ cc = NoCall
  /\ \E e \in SendEvents :
       proc = [r \in Reqs |->
                 IF r = 1
                 THEN [Idle EXCEPT !.pc = "s_read", !.e = e,
                                   !.schemaurl = Get(FullPolicy, "schemaurl")]
                 ELSE Idle]
  /\ flight = [f \in Flights |-> Landed]
  /\ schemaPosts = {}
  /\ ClientInit

NextSend ==
  sendRead(1) \/ sendBody(1) \/ sendWriteRead(1) \/ sendWriteBody(1) \/ sendSinkEnd(1)

SpecSend == InitSend /\ [][NextSend]_vars

----------------------------------------------------------------------------
(* Properties of the pipeline (Spec) *)

Range(seq) == {seq[i] : i \in 1..Len(seq)}

\* C1: every event a flush removes from the pending buffer was in the body
\* of that flush's POST.
C1_FlushedWerePosted ==
  [][\A f \in Flights :
       (flight[f].pc = "posting" /\ flight'[f].pc = "idle")
       => \A i \in 1..Len(storage) :
            storage[i] \in Range(flight[f].body) \/ storage[i] \in Range(storage')]_vars

\* C7: a failing IP lookup does not stop capture: no message that carries an
\* event field ends in updateData's catch because getIP threw.
C7_IpFailureKeepsEvent ==
  \A r \in Reqs :
    Truthy(Get(proc[r].e, "event")) => ~(proc[r].pc = "caught" /\ proc[r].err = "ip")

----------------------------------------------------------------------------
(* Properties of the schema step of sendData (SpecSend) *)

\* sendData of r has compared its candidate schema with the saved one
Compared(r) == proc[r].pc \in {"s_wread", "s_wbody", "s_sink", "done"}
\* the fields of a schema, in order
FieldsOf(schema) == [i \in 1..Len(Elements(schema)) |-> Elements(schema)[i].v]

\* C8: with a non-empty baseline, a top-level candidate field that has no
\* baseline field of its name, or one of another type, makes checkSchema
\* return true.
C8_MismatchIsChange ==
  \A r \in Reqs :
    ( /\ Compared(r)
      /\ Truthy(proc[r].savedSchema)
      /\ Length(proc[r].savedSchema) > 0
      /\ \E i \in 1..Len(FieldsOf(proc[r].schema)) :
           LET k == FieldsOf(proc[r].schema)[i]
               saved == Find(proc[r].savedSchema, Get(k, "name"))
           IN ~Truthy(saved) \/ Get(saved, "type") # Get(k, "type") )
    => proc[r].newSchema

\* C9: checkSchema returns true against an absent and against an empty
\* baseline for every candidate schema, and an event whose sendData found no
\* schema stored ends with the schema in the cache and posted to the schema
\* sink.
C9_FirstSchemaIsPublished ==
  \A r \in Reqs :
    /\ Compared(r)
       => /\ checkSchema(proc[r].schema, Null)
          /\ checkSchema(proc[r].schema, Undef)
          /\ checkSchema(proc[r].schema, List(<<>>))
    /\ (Compared(r) /\ proc[r].savedSchema = Null) => proc[r].newSchema
    /\ (proc[r].pc \in {"done", "rejected"} /\ proc[r].savedSchema = Null
        /\ Truthy(proc[r].schemaurl))
       => /\ IsEntry(store["schema"])
          /\ \E post \in schemaPosts :
               post.by = r /\ post.body = EntryOf(store["schema"])

RECURSIVE ContainersHaveFields(_)
\* every STRUCT or RECORD field of the schema, at every depth, has a
\* non-empty fields list
ContainersHaveFields(schema) ==
  \A i \in 1..Len(FieldsOf(schema)) :
    LET k == FieldsOf(schema)[i]
    IN Get(k, "type") \in {Str("STRUCT"), Str("RECORD")}
       => /\ Get(k, "fields").t = "array"
          /\ Length(Get(k, "fields")) > 0
          /\ ContainersHaveFields(Get(k, "fields"))

\* C10: in every schema createSchema returns, each STRUCT or RECORD field
\* has a non-empty fields sequence at every depth.
C10_NoEmptyContainers ==
  \A r \in Reqs : Compared(r) => ContainersHaveFields(proc[r].schema)

\* the field of a schema that carries a name, or undefined
FieldNamed(schema, k) == Find(schema, Str(k))

\* C11: every key of the event whose value is of a kind the primitive table
\* does not hold, null included, has a field of its name with type STRING
\* in the schema createSchema returns.
C11_UnmappedIsString ==
  \A r \in Reqs :
    Compared(r)
    => \A i \in 1..Len(proc[r].e.kv) :
         proc[r].e.kv[i].v.t \in {"null", "undefined"}
         => Get(FieldNamed(proc[r].schema, proc[r].e.kv[i].k), "type") = Str("STRING")

RECURSIVE AddNew(_, _)
\* R extended by the properties whose keys it does not hold yet
AddNew(R, kv) ==
  IF kv = <<>> THEN R
  ELSE AddNew(IF HasKey(R, Head(kv).k) THEN R ELSE Put(R, Head(kv).k, Head(kv).v),
              Tail(kv))

RECURSIVE FirstSeen(_, _)
\* the representative object: each key of any object element, with the
\* value of the first element that holds it
FirstSeen(elems, R) ==
  IF elems = <<>> THEN R
  ELSE FirstSeen(Tail(elems),
                 IF Head(elems).v.t = "object" THEN AddNew(R, Head(elems).v.kv) ELSE R)

\* C12: for an array whose object elements hold at least one key, the fields
\* of the REPEATED field are createSchema of the representative object in
\* which the first value seen for a key wins.
C12_FirstSeenWins ==
  \A r \in Reqs :
    Compared(r)
    => \A i \in 1..Len(proc[r].e.kv) :
         LET k == proc[r].e.kv[i].k
             v == proc[r].e.kv[i].v
         IN (v.t = "array" /\ Len(FirstSeen(Elements(v), Obj(<<>>)).kv) > 0)
            => Get(FieldNamed(proc[r].schema, k), "fields")
                 = createSchema(FirstSeen(Elements(v), Obj(<<>>)))

RECURSIVE HasNoEmpty(_)
\* no empty object and no empty array at any depth of v
HasNoEmpty(v) ==
  \A i \in 1..Len(v.kv) :
    v.kv[i].v.t \in {"object", "array"}
    => Len(v.kv[i].v.kv) > 0 /\ HasNoEmpty(v.kv[i].v)

\* C13: no event in the pending buffer holds an empty object or an empty
\* array at any depth.
C13_NoEmptyContainersPending ==
  \A i \in 1..Len(storage) : HasNoEmpty(storage[i].obj)

\* the candidate field k has no baseline field of its name, or one of
\* another type
Mismatch(k, savedObj) ==
  \/ ~Truthy(Find(savedObj, Get(k, "name")))
  \/ Get(Find(savedObj, Get(k, "name")), "type") # Get(k, "type")

\* sendData of r compared its candidate with a stored, non-empty baseline
ComparedWithBaseline(r) ==
  Compared(r) /\ proc[r].savedSchema.t = "array" /\ Length(proc[r].savedSchema) > 0

\* every candidate field has a same-named baseline field of the same type,
\* and none is a STRUCT
AllMatchNoStruct(schema, savedObj) ==
  \A i \in 1..Len(FieldsOf(schema)) :
    /\ ~Mismatch(FieldsOf(schema)[i], savedObj)
    /\ Get(FieldsOf(schema)[i], "type") # Str("STRUCT")

\* C15: if every candidate field has a same-named baseline field of the same
\* non-STRUCT type, checkSchema returns false however many more fields the
\* baseline holds, and sendData neither writes the schema entry nor posts.
C15_SubsetIsUnchanged ==
  \A r \in Reqs :
    (ComparedWithBaseline(r) /\ AllMatchNoStruct(proc[r].schema, proc[r].savedSchema))
    => /\ ~proc[r].newSchema
       /\ ~checkSchema(proc[r].schema, proc[r].savedSchema)
       /\ proc[r].pc = "done"
       /\ EntryOf(store["schema"]) = proc[r].savedSchema
       /\ schemaPosts = {}

\* an event whose fields are a proper subset of the stored schema's went
\* through without a write and without a POST
C15_Witness ==
  \E r \in Reqs :
    /\ ComparedWithBaseline(r)
    /\ AllMatchNoStruct(proc[r].schema, proc[r].savedSchema)
    /\ Length(proc[r].savedSchema) > Length(proc[r].schema)
    /\ Length(proc[r].schema) > 1
    /\ proc[r].pc = "done" /\ Len(storage) = 1 /\ schemaPosts = {}

\* the candidate and the baseline have the same fields, except within the
\* fields of same-named REPEATED fields
SameButRepeated(schema, savedObj) ==
  /\ Length(schema) = Length(savedObj)
  /\ \A i \in 1..Len(FieldsOf(schema)) :
       LET k == FieldsOf(schema)[i]
           saved == Find(savedObj, Get(k, "name"))
       IN IF Get(k, "type") = Str("RECORD")
          THEN /\ Get(saved, "type") = Str("RECORD")
               /\ Get(saved, "mode") = Get(k, "mode")
          ELSE saved = Normal(k)

\* some REPEATED field of the candidate has other fields than its baseline
\* field
SomeRepeatedDiffers(schema, savedObj) ==
  \E i \in 1..Len(FieldsOf(schema)) :
    LET k == FieldsOf(schema)[i]
    IN /\ Get(k, "type") = Str("RECORD")
       /\ Get(Find(savedObj, Get(k, "name")), "fields") # Get(Normal(k), "fields")

\* C16: a candidate and a baseline that differ only inside the fields of a
\* same-named REPEATED field compare as unchanged.
C16_RepeatedNotInspected ==
  \A r \in Reqs :
    ( /\ ComparedWithBaseline(r)
      /\ SameButRepeated(proc[r].schema, proc[r].savedSchema)
      /\ SomeRepeatedDiffers(proc[r].schema, proc[r].savedSchema) )
    => /\ ~proc[r].newSchema
       /\ ~checkSchema(proc[r].schema, proc[r].savedSchema)

\* an event whose array has other items than the stored schema's REPEATED
\* field went through as unchanged, next to a STRUCT field that is equal
C16_Witness ==
  \E r \in Reqs :
    /\ ComparedWithBaseline(r)
    /\ SameButRepeated(proc[r].schema, proc[r].savedSchema)
    /\ SomeRepeatedDiffers(proc[r].schema, proc[r].savedSchema)
    /\ \E i \in 1..Len(FieldsOf(proc[r].schema)) :
         Get(FieldsOf(proc[r].schema)[i], "type") = Str("STRUCT")
    /\ proc[r].pc = "done" /\ ~proc[r].newSchema /\ schemaPosts = {}

\* the largest number of a non-empty set of numbers
Max(S) == CHOOSE i \in S : \A j \in S : j <= i

RECURSIVE LastStructVerdict(_, _)
\* the verdict as the last matched STRUCT field decides it: the verdict on
\* the fields of the last candidate STRUCT field that has a same-named
\* baseline field, ORed with the mismatches of the candidate fields after it
LastStructVerdict(obj, savedObj) ==
  IF ~Truthy(savedObj) \/ Length(savedObj) = 0 THEN TRUE
  ELSE
    LET f == FieldsOf(obj)
        matched == {i \in 1..Len(f) :
                      /\ Get(f[i], "type") = Str("STRUCT")
                      /\ Truthy(Find(savedObj, Get(f[i], "name")))}
        last == IF matched = {} THEN 0 ELSE Max(matched)
    IN \/ /\ last > 0
          /\ LastStructVerdict(Get(f[last], "fields"),
                               Get(Find(savedObj, Get(f[last], "name")), "fields"))
       \/ \E i \in (last + 1)..Len(f) : Mismatch(f[i], savedObj)

\* a STRUCT field of the candidate, before the last matched one, whose
\* nested fields differ from its baseline field's
EarlierStructDiffers(schema, savedObj) ==
  \E i, j \in 1..Len(FieldsOf(schema)) :
    LET f == FieldsOf(schema)
    IN /\ i < j
       /\ Get(f[i], "type") = Str("STRUCT") /\ Get(f[j], "type") = Str("STRUCT")
       /\ ~Mismatch(f[i], savedObj) /\ ~Mismatch(f[j], savedObj)
       /\ objectCompare(Get(f[i], "fields"), Get(Find(savedObj, Get(f[i], "name")), "fields"))
       /\ ~objectCompare(Get(f[j], "fields"), Get(Find(savedObj, Get(f[j], "name")), "fields"))

\* C17: the verdict on a matched STRUCT field replaces the flag so far: the
\* result of checkSchema is the verdict of the last matched STRUCT field ORed
\* with the mismatches of the fields after it, so a nested mismatch in a
\* STRUCT field followed by a matching STRUCT field gives false, and in the
\* other order true.
C17_LastStructDecides ==
  \A r \in Reqs :
    ComparedWithBaseline(r)
    => /\ proc[r].newSchema = LastStructVerdict(proc[r].schema, proc[r].savedSchema)
       /\ EarlierStructDiffers(proc[r].schema, proc[r].savedSchema) => ~proc[r].newSchema

\* candidate [f2, f1]: f2 holds a nested mismatch, f1 after it matches, and
\* the event went through as unchanged
C17_Witness ==
  \E r \in Reqs :
    /\ ComparedWithBaseline(r)
    /\ EarlierStructDiffers(proc[r].schema, proc[r].savedSchema)
    /\ Length(proc[r].schema) = 3
    /\ proc[r].pc = "done" /\ ~proc[r].newSchema /\ schemaPosts = {}

\* C18: an event on which sendData found a schema change is appended only
\* when the override write of its schema and its POST to the schema sink
\* are over, and the end of the POST, answered or failed, appends it.
C18_SchemaBeforeAppend ==
  [][\A r \in Reqs :
       /\ (proc[r].pc = "s_sink" /\ proc'[r].pc # "s_sink")
          => /\ proc'[r].pc = "done"
             /\ storage' = Pushed(r, proc[r].e)
       /\ (storage' # storage /\ proc'[r].pc = "done" /\ proc[r].pc # "done"
           /\ proc'[r].newSchema)
          => /\ proc[r].pc = "s_sink"
             /\ IsEntry(store["schema"])
             /\ EntryOf(store["schema"]) = Normal(proc[r].schema)
             /\ [by |-> r, body |-> Normal(proc[r].schema)] \in schemaPosts]_vars

\* an event that changed a stored schema is pending, its schema written and
\* posted
C18_Witness ==
  \E r \in Reqs :
    /\ proc[r].pc = "done" /\ proc[r].newSchema
    /\ proc[r].savedSchema.t = "array"
    /\ EntryOf(store["schema"]) = Normal(proc[r].schema)
    /\ [by |-> r, body |-> Normal(proc[r].schema)] \in schemaPosts
    /\ Len(storage) = 1 /\ storage[1].id = r

\* C14: the entry under 'schema' changes only in the step of a sendData in
\* which checkSchema returned true, the write of cache('schema', schema, 600,
\* true), and it is then exactly the schema created from that event; reads
\* of the entry, the passing of time and events processed without schemaurl
\* leave it as it is.
C14_SchemaWrittenOnChangeOnly ==
  [][store'["schema"] # store["schema"]
     => \E r \in Reqs :
          /\ proc[r].pc = "s_wbody" /\ proc'[r].pc \in {"s_sink", "done"}
          /\ proc[r].newSchema
          /\ Truthy(proc[r].schemaurl)
          /\ proc[r].schema = createSchema(proc[r].e)
          /\ IsEntry(store'["schema"])
          /\ EntryOf(store'["schema"]) = Normal(proc[r].schema)]_vars

\* two events with different schemas were processed and time has passed:
\* the entry is the schema of the later one, fields of the earlier one gone
C14_Witness ==
  \E p1, p2 \in schemaPosts :
    /\ p1.by # p2.by
    /\ Length(p1.body) > Length(p2.body)
    /\ EntryOf(store["schema"]) = p2.body
    /\ now > StartTime
    /\ \A r \in Reqs : proc[r].pc = "done"

----------------------------------------------------------------------------
(* sendData twice: an event, then another one with an equal schema *)

\* the values of the fields of the two events
SeqVals ==
  Scalars
    \cup {Obj(<<>>), Obj(<<P("x", Num(1))>>), Obj(<<P("x", Str("x"))>>)}
    \cup {List(<<>>), List(<<Num(1)>>), List(<<Obj(<<P("x", Num(1))>>)>>)}
SeqEvents == {WithEvent(o) : o \in ObjsOver(SeqVals)}

\* the schema an earlier sendData left in the store, or none
SeqBaseVals == {Undef, Obj(<<P("x", Num(1))>>)}
SeqStored ==
  {Undef} \cup
  {CacheSave(createSchema(WithEvent(Normal(Obj(<<P("a", va), P("b", vb)>>)))),
             StartTime).item : va \in SeqBaseVals, vb \in SeqBaseVals}

\* sendData(e) of the first event has just asked the store for the schema
InitSeq ==
  /\ managed = FullPolicy
  /\ \E item \in SeqStored :
       store = [SetItems([k \in StoreKeys |-> Undef], FullPolicy.kv)
                  EXCEPT !["schema"] = item]
  /\ storage = <<>>
  /\ now = StartTime
  /\ cc = NoCall
  /\ \E e \in SeqEvents :
       proc = [r \in Reqs |->
                 IF r = 1
                 THEN [Idle EXCEPT !.pc = "s_read", !.e = e,
                                   !.schemaurl = Get(FullPolicy, "schemaurl")]
                 ELSE Idle]
  /\ flight = [f \in Flights |-> Landed]
  /\ schemaPosts = {}
  /\ ClientInit

\* once the first sendData is over, sendData(e) is called with an event
\* whose schema is structurally equal to the first one's
sendNext ==
  /\ proc[1].pc = "done" /\ proc[2].pc = "idle"
  /\ \E e \in SeqEvents :
       /\ createSchema(e) = createSchema(proc[1].e)
       /\ Set(2, [Idle EXCEPT !.pc = "s_read", !.e = e,
                              !.schemaurl = Get(managed, "schemaurl")])
  /\ UNCHANGED <<managed, store, storage, now, cc, flight, schemaPosts, page, calls, sent>>

\* between the two events: the first sendData is over, the second not begun
Between == proc[1].pc = "done" /\ proc[2].pc = "idle"
\* await cache('schema') between the two events
readSchema == Between /\ CacheCall("schema", Undef, DefaultTime, FALSE)
\* time passes between the two events
waitNext == Between /\ Tick

NextSeq ==
  \/ \E r \in {1, 2} :
       sendRead(r) \/ sendBody(r) \/ sendWriteRead(r) \/ sendWriteBody(r) \/ sendSinkEnd(r)
  \/ sendNext
  \/ readSchema
  \/ waitNext

SpecSeq == InitSeq /\ [][NextSeq]_vars

\* C19: after a completed sendData, a second event with a structurally equal
\* schema is found unchanged, whatever time has passed and however often
\* the schema was read in between: no write, no POST; and the stored schema
\* read back compares as unchanged against itself.
C19_EqualSchemaIsNoOp ==
  /\ IsEntry(store["schema"])
     => ~checkSchema(EntryOf(store["schema"]), EntryOf(store["schema"]))
  /\ proc[2].pc \notin {"idle", "s_read", "s_body"}
     => /\ proc[2].pc = "done"
        /\ ~proc[2].newSchema
        /\ EntryOf(store["schema"]) = proc[2].savedSchema
        /\ \A post \in schemaPosts : post.by = 1

\* the first event wrote and posted its schema, time passed, the schema was
\* read, and the second event went through without a write or POST
C19_Witness ==
  /\ proc[1].pc = "done" /\ proc[1].newSchema
  /\ proc[2].pc = "done" /\ ~proc[2].newSchema
  /\ proc[2].e # proc[1].e
  /\ now > StartTime + DefaultTime
  /\ cc.key = "schema"
  /\ Len(storage) = 2
  /\ Cardinality(schemaPosts) = 1

\* C20: sendData calls do not interleave between the read of the baseline
\* and the cache write: of the events with structurally equal schemas only
\* one writes and posts, so no schema is posted by two different events.
C20_OneWriterPerSchema ==
  \A p1, p2 \in schemaPosts : p1.body = p2.body => p1.by = p2.by

\* C21: createSchema returns a schema, without throwing, for every event,
\* arrays that hold null included, so no sendData ends at createSchema
\* before the event is appended.
C21_CreateSchemaNeverThrows ==
  \A r \in Reqs :
    /\ ~(proc[r].pc = "rejected" /\ proc[r].err = "schema")
    /\ proc[r].pc \notin {"idle", "s_read", "s_body"}
       => createSchema(proc[r].e) # Thrown

----------------------------------------------------------------------------
(* The content script: getClientInfo over the page's localStorage *)

\* navigator.userAgent and navigator.platform of the browsers the model
\* follows
Navigators ==
  {[agent |-> "Mozilla/5.0 (X11; CrOS x86_64)", platform |-> "Linux x86_64"],
   [agent |-> "Mozilla/5.0 (Macintosh)", platform |-> "MacIntel"]}
\* platform.replace(/_/g, '-') on the platforms above
Dashed(platform) ==
  CASE platform = "Linux x86_64" -> "Linux x86-64"
    [] OTHER -> platform
\* fetchInfo(): { agent, platform }
fetchInfo(nav) ==
  Obj(<<P("agent", Str(nav.agent)), P("platform", Str(Dashed(nav.platform)))>>)

\* request.item as requestData builds it, or no item at all
Items ==
  {Undef} \cup
  {Obj(<<P("tabId", Null), P("event", Str(ev))>>) : ev \in {"timed check", "loaded"}}
\* request.type
RequestTypes == {"request", "backend"}

\* if (e) infocache = { ...infocache, ...e }; chrome.runtime.sendMessage:
\* the message as it arrives, undefined properties dropped
Message(infocache, e) ==
  Normal(IF Truthy(e) THEN Spread(Obj(infocache.kv), e.kv) ELSE infocache)

\* cache(key, value) of the content script: synchronous, over the page's
\* localStorage, with the default time and no override
pageCache(key, value) == CacheBody(page, key, value, DefaultTime, FALSE, now)

\* The listener, and getClientInfo up to its await: a 'backend' request is
\* only logged; otherwise cache('info') is read, and the entry it returns is
\* sent unless it is falsy or has at most one key, in which case fetchInfo
\* is awaited.
clientOnMessage(c) ==
  /\ calls[c].pc = "idle"
  /\ \E type \in RequestTypes, item \in Items :
       IF type # "request"
       THEN /\ calls' = [calls EXCEPT ![c].pc = "done"]
            /\ UNCHANGED <<page, sent>>
       ELSE
         LET read == pageCache("info", Undef)
         IN /\ page' = IF read.write THEN read.item ELSE page
            /\ IF read.threw
               THEN /\ calls' = [calls EXCEPT ![c].pc = "rejected"]
                    /\ sent' = sent
               ELSE IF ~Truthy(read.ret) \/ Len(Keys(read.ret)) <= 1
               THEN /\ calls' = [calls EXCEPT ![c] = [pc |-> "fetch", e |-> item]]
                    /\ sent' = sent
               ELSE /\ calls' = [calls EXCEPT ![c] = [pc |-> "done", e |-> item]]
                    /\ sent' = sent \cup {Message(read.ret, item)}
  /\ UNCHANGED <<managed, store, storage, now, cc, proc, flight, schemaPosts>>

\* getClientInfo after the await: cache('info', infocache) stamps and saves
\* the fetched object when it writes, then the message is sent.
clientFetched(c) ==
  /\ calls[c].pc = "fetch"
  /\ \E nav \in Navigators :
       LET info == fetchInfo(nav)
           saved == pageCache("info", info)
           infocache == IF saved.write THEN saved.ret ELSE info
       IN /\ page' = IF saved.write THEN saved.item ELSE page
          /\ IF saved.threw
             THEN /\ calls' = [calls EXCEPT ![c].pc = "rejected"]
                  /\ sent' = sent
             ELSE /\ calls' = [calls EXCEPT ![c].pc = "done"]
                  /\ sent' = sent \cup {Message(infocache, calls[c].e)}
  /\ UNCHANGED <<managed, store, storage, now, cc, proc, flight, schemaPosts>>

NextClient == (\E c \in Calls : clientOnMessage(c) \/ clientFetched(c)) \/ Tick
SpecClient == Init /\ [][NextClient]_vars

\* C22: every message getClientInfo sends carries agent and platform,
\* whatever the age of the cached 'info' entry.
C22_MessagesCarryAgentAndPlatform ==
  \A m \in sent : Truthy(Get(m, "agent")) /\ Truthy(Get(m, "platform"))

====
